---- MODULE Spec2Model ----
(***************************************************************************)
(* The OpenTelemetry bootstrap of observeinc/otel-setup-examples:          *)
(*   python/flask/otel.py  (OTLP over gRPC, Flask instrumentation)         *)
(*   python/http/otel.py   (OTLP over HTTP, requests/urllib3)              *)
(*                                                                         *)
(* One Python process is modelled.  Its state is the process environment,  *)
(* the three global provider slots of the OpenTelemetry API, the objects   *)
(* the bootstrap constructs (resources, providers, exporters, processors,  *)
(* header dicts, logging handlers), the root logger, the set of activated  *)
(* instrumentors and the position and locals of the running                *)
(* setup_instrumentation call.  Every statement of the two files is one    *)
(* action; an exporter constructor either returns or raises.               *)
(*                                                                         *)
(* Library behaviour the files rely on:                                    *)
(*  - opentelemetry.trace.set_tracer_provider, metrics.set_meter_provider  *)
(*    and _logs.set_logger_provider are guarded by a Once: the first call  *)
(*    in a process stores the provider, every later call logs              *)
(*    "Overriding of current ...Provider is not allowed" and stores        *)
(*    nothing.                                                             *)
(*  - Resource(attributes=...) holds exactly the attributes given.         *)
(*  - logging.Logger.addHandler appends the handler unless that very       *)
(*    object is already in the list; setLevel stores the level.            *)
(*  - os.environ.get(k, d) is environ[k] when k is set (even to ""), else  *)
(*    d; os.environ.get(k) is None when k is not set.                      *)
(*  - BaseInstrumentor.instrument / instrument_app on something already    *)
(*    instrumented only logs a warning.                                    *)
(***************************************************************************)
EXTENDS Integers, Sequences, FiniteSets, TLC

\* How many times setup_instrumentation is invoked in the process.
MaxRuns == 2

\* How many times _create_otlp_headers is called directly (HeadersSpec).
MaxHeaderCalls == 2

\* ------------------------------------------------------------------------
\* Values

\* logging.NOTSET and logging.INFO
NOTSET == 0
INFO == 20

\* The other logging levels a root logger is found at or a record is logged
\* at: logging.DEBUG, logging.WARNING (the root logger's default), logging.ERROR
DEBUG == 10
WARNING == 30
ERROR == 40

\* opentelemetry.sdk.resources.SERVICE_NAME
SERVICE_NAME == "service.name"

ENDPOINT_VAR == "OTEL_EXPORTER_OTLP_ENDPOINT"
TOKEN_VAR == "OTEL_EXPORTER_OTLP_BEARER_TOKEN"

ServiceNames == {"", "checkout"}
EndpointValues == {"", "https://collect.example"}
TokenValues == {"", "s3cr3t"}
Labels == {"Tracing", "Metrics", "Logs"}

\* Python's None for an optional string; a present string s is <<s>>.
None == <<>>
Some(s) == <<s>>

\* An object reference is its index in its heap sequence; 0 is "no object".
NoRef == 0

\* The environments a process can start in: each variable set or not set.
Environs ==
    { e @@ t :
        e \in {<<>>} \cup { (ENDPOINT_VAR :> v) : v \in EndpointValues },
        t \in {<<>>} \cup { (TOKEN_VAR :> v) : v \in TokenValues } }

VARIABLES
    environ,        \* os.environ
    globals,        \* the API's global provider slots: trace, metric, log
    heap,           \* every object constructed so far, by kind
    root,           \* logging.getLogger(): level and handler list
    instrumented,   \* what automatic instrumentation has been activated
    pc,             \* the statement the process is at ("idle": not in a call)
    frame,          \* locals of the running setup_instrumentation call
    runs,           \* number of setup_instrumentation calls started
    outcome,        \* how the last call ended: returned tuple or raised
    calls,          \* the library calls the running call has made, in order
    at_call         \* globals and root as they were when the call started

vars == <<environ, globals, heap, root, instrumented, pc, frame, runs,
          outcome, calls, at_call>>

\* ------------------------------------------------------------------------
\* Library primitives

\* Variant: environ.get(key) or default, which treats "" as not set.
os_environ_get_or_default(key, default) ==
    IF key \in DOMAIN environ /\ environ[key] /= "" THEN environ[key]
    ELSE default

\* os.environ.get(key, default)
os_environ_get_default(key, default) ==
    IF key \in DOMAIN environ THEN environ[key] ELSE default

\* os.environ.get(key)
os_environ_get(key) ==
    IF key \in DOMAIN environ THEN Some(environ[key]) ELSE None

\* Variant: "is not None" in place of truthiness.
IsNotNone(opt) == opt /= None

\* Python truthiness of an optional string: None and "" are falsy.
Truthy(opt) == opt /= None /\ opt[1] /= ""

\* Variant: an empty service name replaced by a default name.
Resource_unknown_service(service_name) ==
    [attributes |-> (SERVICE_NAME :>
        (IF service_name = "" THEN "unknown_service" ELSE service_name))]

\* Resource(attributes={SERVICE_NAME: service_name})
Resource(service_name) == [attributes |-> (SERVICE_NAME :> service_name)]

NewRef(kind) == Len(heap[kind]) + 1
Alloc(h, kind, obj) == [h EXCEPT ![kind] = Append(@, obj)]

\* Variant: the processor is built and never attached.
AddProcessor_dropped(h, provider, processor) == h

\* provider.add_span_processor / add_log_record_processor
AddProcessor(h, provider, processor) ==
    [h EXCEPT !.providers[provider].processors = Append(@, processor)]

\* Variant: every call replaces the registered provider.
set_tracer_provider_overwrite(g, p) == [g EXCEPT !.trace = p]

\* trace.set_tracer_provider(p): stored by the first call only.
set_tracer_provider(g, p) ==
    IF g.trace = NoRef THEN [g EXCEPT !.trace = p] ELSE g

\* metrics.set_meter_provider(p): stored by the first call only.
set_meter_provider(g, p) ==
    IF g.metric = NoRef THEN [g EXCEPT !.metric = p] ELSE g

\* Variant: the provider is not registered at this point.
set_logger_provider_deferred(g, p) == g

\* set_logger_provider(p): stored by the first call only.
set_logger_provider(g, p) ==
    IF g.log = NoRef THEN [g EXCEPT !.log = p] ELSE g

\* Variant: the handler replaces the handlers already there.
addHandler_replace(r, handler) == [r EXCEPT !.handlers = <<handler>>]

\* logging.getLogger().addHandler(handler)
addHandler(r, handler) ==
    IF \E i \in 1..Len(r.handlers) : r.handlers[i] = handler
    THEN r
    ELSE [r EXCEPT !.handlers = Append(@, handler)]

\* Variant: the threshold is only ever lowered.
setLevel_if_lower(r, level) ==
    IF level < r.level THEN [r EXCEPT !.level = level] ELSE r

\* logging.getLogger().setLevel(level)
setLevel(r, level) == [r EXCEPT !.level = level]

NoHandle == [kind |-> "none", of |-> NoRef]

EmptyFrame ==
    [variant |-> "none", service_name |-> "", resource |-> NoRef,
     otlp_endpoint |-> "", bearer_token |-> None,
     headers |-> NoRef, provider |-> NoRef, exporter |-> NoRef,
     processor |-> NoRef, handler |-> NoRef,
     tracer |-> NoHandle, meter |-> NoHandle, logger |-> NoHandle]

NoOutcome == [kind |-> "none", in |-> "", value |-> <<>>]

\* An exception leaves setup_instrumentation from function fn.
Raise(fn) ==
    /\ pc' = "idle"
    /\ outcome' = [kind |-> "raised", in |-> fn, value |-> <<>>]

Called(name) == calls' = Append(calls, name)

\* ------------------------------------------------------------------------
\* Constructors (the objects the two files build)

TracerProvider(resource) ==
    [signal |-> "trace", resource |-> resource, processors |-> <<>>]

MeterProvider(resource, metric_readers) ==
    [signal |-> "metric", resource |-> resource, processors |-> metric_readers]

LoggerProvider(resource) ==
    [signal |-> "log", resource |-> resource, processors |-> <<>>]

\* An OTLP exporter of either transport; headers is a dict reference or NoRef.
OTLPExporter(signal, protocol, endpoint, headers) ==
    [signal |-> signal, protocol |-> protocol, endpoint |-> endpoint,
     headers |-> headers]

\* BatchSpanProcessor, PeriodicExportingMetricReader, BatchLogRecordProcessor
Processor(signal, exporter) ==
    [signal |-> signal, exporter |-> exporter, shutdown |-> FALSE]

\* LoggingHandler(level=logging.NOTSET, logger_provider=logger_provider)
LoggingHandler(level, logger_provider) ==
    [level |-> level, logger_provider |-> logger_provider]

\* trace.get_tracer(__name__) / metrics.get_meter(__name__): a handle of the
\* provider that is the global one at the time of the call.
get_tracer(g) == [kind |-> "tracer", of |-> g.trace]
get_meter(g) == [kind |-> "meter", of |-> g.metric]
\* logging.getLogger(__name__)
getLogger == [kind |-> "logger", of |-> NoRef]

\* LoggingInstrumentor().instrument(set_logging_format=True): the first call
\* runs logging.basicConfig(format=..., level=INFO), which configures the root
\* logger only when it has no handler; later calls only log a warning.
LoggingInstrumentor_instrument ==
    LET configure == "logging" \notin instrumented /\ Len(root.handlers) = 0
    IN  /\ instrumented' = instrumented \cup {"logging"}
        /\ heap' = IF configure
                   THEN Alloc(heap, "handlers", LoggingHandler(NOTSET, NoRef))
                   ELSE heap
        /\ root' = IF configure
                   THEN [level |-> INFO, handlers |-> <<NewRef("handlers")>>]
                   ELSE root

\* ------------------------------------------------------------------------
\* Initial state: a fresh interpreter, nothing registered.  The application
\* has either left the root logger as it is created (WARNING, no handler) or
\* configured it for debugging (DEBUG, one handler of its own).

Init ==
    /\ environ \in Environs
    /\ globals = [trace |-> NoRef, metric |-> NoRef, log |-> NoRef]
    /\ \/ /\ heap = [resources |-> <<>>, providers |-> <<>>, exporters |-> <<>>,
                    processors |-> <<>>, dicts |-> <<>>, handlers |-> <<>>]
          /\ root = [level |-> WARNING, handlers |-> <<>>]
       \/ /\ heap = [resources |-> <<>>, providers |-> <<>>, exporters |-> <<>>,
                    processors |-> <<>>, dicts |-> <<>>,
                    handlers |-> <<LoggingHandler(NOTSET, NoRef)>>]
          /\ root = [level |-> DEBUG, handlers |-> <<1>>]
    /\ instrumented = {}
    /\ pc = "idle"
    /\ frame = EmptyFrame
    /\ runs = 0
    /\ outcome = NoOutcome
    /\ calls = <<>>
    /\ at_call = [globals |-> globals, root |-> root]

\* ------------------------------------------------------------------------
\* python/flask/otel.py

Flask_default_endpoint == "http://localhost:4317"

\* Variant: the handles in the order the setup functions ran.
Flask_return_value_in_setup_order(f) == <<f.tracer, f.meter, f.logger>>

\* The tuple setup_instrumentation returns.
Flask_return_value(f) == <<f.logger, f.tracer, f.meter>>

\* setup_instrumentation(app, service_name) is called.
Flask_setup_instrumentation(service_name) ==
    /\ pc = "idle"
    /\ runs < MaxRuns
    /\ runs' = runs + 1
    /\ frame' = [EmptyFrame EXCEPT !.variant = "flask",
                                   !.service_name = service_name]
    /\ outcome' = NoOutcome
    /\ calls' = <<>>
    /\ at_call' = [globals |-> globals, root |-> root]
    /\ pc' = "F92"
    /\ UNCHANGED <<environ, globals, heap, root, instrumented>>

\* FlaskInstrumentor().instrument_app(app)
Flask_L92 ==
    /\ pc = "F92"
    /\ instrumented' = instrumented \cup {"flask"}
    /\ Called("FlaskInstrumentor.instrument_app")
    /\ pc' = "F94"
    /\ UNCHANGED <<environ, globals, heap, root, frame, runs, outcome, at_call>>

\* resource = Resource(attributes={SERVICE_NAME: service_name})
Flask_L94 ==
    /\ pc = "F94"
    /\ heap' = Alloc(heap, "resources", Resource(frame.service_name))
    /\ frame' = [frame EXCEPT !.resource = NewRef("resources")]
    /\ pc' = "F95"
    /\ UNCHANGED <<environ, globals, root, instrumented, runs, outcome, calls,
                   at_call>>

\* otlp_endpoint = os.environ.get("OTEL_EXPORTER_OTLP_ENDPOINT", default)
Flask_L95 ==
    /\ pc = "F95"
    /\ frame' = [frame EXCEPT !.otlp_endpoint =
                    os_environ_get_default(ENDPOINT_VAR, Flask_default_endpoint)]
    /\ pc' = "F33"
    /\ UNCHANGED <<environ, globals, heap, root, instrumented, runs, outcome,
                   calls, at_call>>

\* setup_tracing: trace_provider = TracerProvider(resource=resource)
Flask_L33 ==
    /\ pc = "F33"
    /\ heap' = Alloc(heap, "providers", TracerProvider(frame.resource))
    /\ frame' = [frame EXCEPT !.provider = NewRef("providers")]
    /\ Called("setup_tracing")
    /\ pc' = "F34"
    /\ UNCHANGED <<environ, globals, root, instrumented, runs, outcome, at_call>>

\* otlp_exporter = OTLPSpanExporter(endpoint=otlp_endpoint): returns or raises
Flask_L34 ==
    /\ pc = "F34"
    /\ \/ /\ heap' = Alloc(heap, "exporters",
                       OTLPExporter("trace", "grpc", frame.otlp_endpoint, NoRef))
          /\ frame' = [frame EXCEPT !.exporter = NewRef("exporters")]
          /\ pc' = "F35"
          /\ UNCHANGED outcome
       \/ /\ Raise("setup_tracing")
          /\ UNCHANGED <<heap, frame>>
    /\ UNCHANGED <<environ, globals, root, instrumented, runs, calls, at_call>>

\* otlp_processor = BatchSpanProcessor(otlp_exporter)
Flask_L35 ==
    /\ pc = "F35"
    /\ heap' = Alloc(heap, "processors", Processor("trace", frame.exporter))
    /\ frame' = [frame EXCEPT !.processor = NewRef("processors")]
    /\ pc' = "F36"
    /\ UNCHANGED <<environ, globals, root, instrumented, runs, outcome, calls,
                   at_call>>

\* trace_provider.add_span_processor(otlp_processor)
Flask_L36 ==
    /\ pc = "F36"
    /\ heap' = AddProcessor(heap, frame.provider, frame.processor)
    /\ pc' = "F37"
    /\ UNCHANGED <<environ, globals, root, instrumented, frame, runs, outcome,
                   calls, at_call>>

\* trace.set_tracer_provider(trace_provider)
Flask_L37 ==
    /\ pc = "F37"
    /\ globals' = set_tracer_provider(globals, frame.provider)
    /\ Called("set_tracer_provider")
    /\ pc' = "F38"
    /\ UNCHANGED <<environ, heap, root, instrumented, frame, runs, outcome,
                   at_call>>

\* return trace.get_tracer(__name__)
Flask_L38 ==
    /\ pc = "F38"
    /\ frame' = [frame EXCEPT !.tracer = get_tracer(globals)]
    /\ pc' = "F52"
    /\ UNCHANGED <<environ, globals, heap, root, instrumented, runs, outcome,
                   calls, at_call>>

\* setup_metrics: metric_reader = PeriodicExportingMetricReader(
\*     OTLPMetricExporter(endpoint=otlp_endpoint)): returns or raises
Flask_L52 ==
    /\ pc = "F52"
    /\ \/ /\ heap' = Alloc(
                       Alloc(heap, "exporters",
                             OTLPExporter("metric", "grpc", frame.otlp_endpoint,
                                          NoRef)),
                       "processors", Processor("metric", NewRef("exporters")))
          /\ frame' = [frame EXCEPT !.exporter = NewRef("exporters"),
                                    !.processor = NewRef("processors")]
          /\ Called("setup_metrics")
          /\ pc' = "F53"
          /\ UNCHANGED outcome
       \/ /\ Raise("setup_metrics")
          /\ Called("setup_metrics")
          /\ UNCHANGED <<heap, frame>>
    /\ UNCHANGED <<environ, globals, root, instrumented, runs, at_call>>

\* metrics.set_meter_provider(MeterProvider(resource=resource,
\*     metric_readers=[metric_reader]))
Flask_L53 ==
    /\ pc = "F53"
    /\ heap' = Alloc(heap, "providers",
                     MeterProvider(frame.resource, <<frame.processor>>))
    /\ frame' = [frame EXCEPT !.provider = NewRef("providers")]
    /\ globals' = set_meter_provider(globals, NewRef("providers"))
    /\ Called("set_meter_provider")
    /\ pc' = "F54"
    /\ UNCHANGED <<environ, root, instrumented, runs, outcome, at_call>>

\* return metrics.get_meter(__name__)
Flask_L54 ==
    /\ pc = "F54"
    /\ frame' = [frame EXCEPT !.meter = get_meter(globals)]
    /\ pc' = "F68"
    /\ UNCHANGED <<environ, globals, heap, root, instrumented, runs, outcome,
                   calls, at_call>>

\* setup_logging: logger_provider = LoggerProvider(resource=resource)
Flask_L68 ==
    /\ pc = "F68"
    /\ heap' = Alloc(heap, "providers", LoggerProvider(frame.resource))
    /\ frame' = [frame EXCEPT !.provider = NewRef("providers"),
                              !.exporter = NoRef, !.processor = NoRef]
    /\ Called("setup_logging")
    /\ pc' = "F69"
    /\ UNCHANGED <<environ, globals, root, instrumented, runs, outcome, at_call>>

\* set_logger_provider(logger_provider)
Flask_L69 ==
    /\ pc = "F69"
    /\ globals' = set_logger_provider(globals, frame.provider)
    /\ Called("set_logger_provider")
    /\ pc' = "F70"
    /\ UNCHANGED <<environ, heap, root, instrumented, frame, runs, outcome,
                   at_call>>

\* logger_provider.add_log_record_processor(BatchLogRecordProcessor(
\*     OTLPLogExporter(endpoint=otlp_endpoint))): the exporter constructor
\* returns or raises
Flask_L70 ==
    /\ pc = "F70"
    /\ \/ /\ heap' = AddProcessor(
                       Alloc(
                         Alloc(heap, "exporters",
                               OTLPExporter("log", "grpc", frame.otlp_endpoint,
                                            NoRef)),
                         "processors", Processor("log", NewRef("exporters"))),
                       frame.provider, NewRef("processors"))
          /\ frame' = [frame EXCEPT !.exporter = NewRef("exporters"),
                                    !.processor = NewRef("processors")]
          /\ Called("add_log_record_processor")
          /\ pc' = "F72"
          /\ UNCHANGED outcome
       \/ /\ Raise("setup_logging")
          /\ UNCHANGED <<heap, frame, calls>>
    /\ UNCHANGED <<environ, globals, root, instrumented, runs, at_call>>

\* handler = LoggingHandler(level=logging.NOTSET, logger_provider=logger_provider)
Flask_L72 ==
    /\ pc = "F72"
    /\ heap' = Alloc(heap, "handlers", LoggingHandler(NOTSET, frame.provider))
    /\ frame' = [frame EXCEPT !.handler = NewRef("handlers")]
    /\ pc' = "F73"
    /\ UNCHANGED <<environ, globals, root, instrumented, runs, outcome, calls,
                   at_call>>

\* logging.getLogger().addHandler(handler)
Flask_L73 ==
    /\ pc = "F73"
    /\ root' = addHandler(root, frame.handler)
    /\ Called("addHandler")
    /\ pc' = "F74"
    /\ UNCHANGED <<environ, globals, heap, instrumented, frame, runs, outcome,
                   at_call>>

\* logging.getLogger().setLevel(logging.INFO)
Flask_L74 ==
    /\ pc = "F74"
    /\ root' = setLevel(root, INFO)
    /\ Called("setLevel")
    /\ pc' = "F76"
    /\ UNCHANGED <<environ, globals, heap, instrumented, frame, runs, outcome,
                   at_call>>

\* LoggingInstrumentor().instrument(set_logging_format=True)
Flask_L76 ==
    /\ pc = "F76"
    /\ LoggingInstrumentor_instrument
    /\ Called("LoggingInstrumentor.instrument")
    /\ pc' = "F78"
    /\ UNCHANGED <<environ, globals, frame, runs, outcome, at_call>>

\* return logging.getLogger(__name__)
Flask_L78 ==
    /\ pc = "F78"
    /\ frame' = [frame EXCEPT !.logger = getLogger]
    /\ pc' = "F101"
    /\ UNCHANGED <<environ, globals, heap, root, instrumented, runs, outcome,
                   calls, at_call>>

\* return logger, tracer, meter
Flask_L101 ==
    /\ pc = "F101"
    /\ outcome' = [kind |-> "returned", in |-> "setup_instrumentation",
                   value |-> Flask_return_value(frame)]
    /\ pc' = "idle"
    /\ UNCHANGED <<environ, globals, heap, root, instrumented, frame, runs,
                   calls, at_call>>

FlaskNext ==
    \/ \E s \in ServiceNames : Flask_setup_instrumentation(s)
    \/ Flask_L92 \/ Flask_L94 \/ Flask_L95
    \/ Flask_L33 \/ Flask_L34 \/ Flask_L35 \/ Flask_L36 \/ Flask_L37 \/ Flask_L38
    \/ Flask_L52 \/ Flask_L53 \/ Flask_L54
    \/ Flask_L68 \/ Flask_L69 \/ Flask_L70 \/ Flask_L72 \/ Flask_L73
    \/ Flask_L74 \/ Flask_L76 \/ Flask_L78 \/ Flask_L101

\* ------------------------------------------------------------------------
\* python/http/otel.py

\* _create_otlp_headers(target_package, bearer_token): the dict it returns.
_create_otlp_headers(target_package, bearer_token) ==
    LET headers == ("x-observe-target-package" :> target_package)
    IN  IF Truthy(bearer_token)
        THEN ("Authorization" :> ("Bearer " \o bearer_token[1])) @@ headers
        ELSE headers

Http_default_endpoint == "http://localhost:4318"

Http_traces_endpoint(otlp_endpoint) == otlp_endpoint \o "/v1/traces"
\* Variant: the metrics exporter given the traces path.
Http_metrics_endpoint_traces(otlp_endpoint) == otlp_endpoint \o "/v1/traces"
Http_metrics_endpoint(otlp_endpoint) == otlp_endpoint \o "/v1/metrics"
Http_logs_endpoint(otlp_endpoint) == otlp_endpoint \o "/v1/logs"

\* The tuple setup_instrumentation returns.
Http_return_value(f) == <<f.logger, f.tracer, f.meter>>

\* setup_instrumentation(service_name) is called.
Http_setup_instrumentation(service_name) ==
    /\ pc = "idle"
    /\ runs < MaxRuns
    /\ runs' = runs + 1
    /\ frame' = [EmptyFrame EXCEPT !.variant = "http",
                                   !.service_name = service_name]
    /\ outcome' = NoOutcome
    /\ calls' = <<>>
    /\ at_call' = [globals |-> globals, root |-> root]
    /\ pc' = "H153"
    /\ UNCHANGED <<environ, globals, heap, root, instrumented>>

\* RequestsInstrumentor().instrument()
Http_L153 ==
    /\ pc = "H153"
    /\ instrumented' = instrumented \cup {"requests"}
    /\ Called("RequestsInstrumentor.instrument")
    /\ pc' = "H154"
    /\ UNCHANGED <<environ, globals, heap, root, frame, runs, outcome, at_call>>

\* URLLib3Instrumentor().instrument()
Http_L154 ==
    /\ pc = "H154"
    /\ instrumented' = instrumented \cup {"urllib3"}
    /\ Called("URLLib3Instrumentor.instrument")
    /\ pc' = "H156"
    /\ UNCHANGED <<environ, globals, heap, root, frame, runs, outcome, at_call>>

\* resource = Resource(attributes={SERVICE_NAME: service_name})
Http_L156 ==
    /\ pc = "H156"
    /\ heap' = Alloc(heap, "resources", Resource(frame.service_name))
    /\ frame' = [frame EXCEPT !.resource = NewRef("resources")]
    /\ pc' = "H157"
    /\ UNCHANGED <<environ, globals, root, instrumented, runs, outcome, calls,
                   at_call>>

\* otlp_endpoint = os.environ.get("OTEL_EXPORTER_OTLP_ENDPOINT", default)
Http_L157 ==
    /\ pc = "H157"
    /\ frame' = [frame EXCEPT !.otlp_endpoint =
                    os_environ_get_default(ENDPOINT_VAR, Http_default_endpoint)]
    /\ pc' = "H160"
    /\ UNCHANGED <<environ, globals, heap, root, instrumented, runs, outcome,
                   calls, at_call>>

\* bearer_token = os.environ.get("OTEL_EXPORTER_OTLP_BEARER_TOKEN")
Http_L160 ==
    /\ pc = "H160"
    /\ frame' = [frame EXCEPT !.bearer_token = os_environ_get(TOKEN_VAR)]
    /\ pc' = "H63"
    /\ UNCHANGED <<environ, globals, heap, root, instrumented, runs, outcome,
                   calls, at_call>>

\* setup_tracing: headers = _create_otlp_headers("Tracing", bearer_token)
Http_L63 ==
    /\ pc = "H63"
    /\ heap' = Alloc(heap, "dicts",
                     _create_otlp_headers("Tracing", frame.bearer_token))
    /\ frame' = [frame EXCEPT !.headers = NewRef("dicts")]
    /\ Called("setup_tracing")
    /\ pc' = "H65"
    /\ UNCHANGED <<environ, globals, root, instrumented, runs, outcome, at_call>>

\* trace_provider = TracerProvider(resource=resource)
Http_L65 ==
    /\ pc = "H65"
    /\ heap' = Alloc(heap, "providers", TracerProvider(frame.resource))
    /\ frame' = [frame EXCEPT !.provider = NewRef("providers")]
    /\ pc' = "H66"
    /\ UNCHANGED <<environ, globals, root, instrumented, runs, outcome, calls,
                   at_call>>

\* otlp_exporter = OTLPSpanExporter(endpoint=f"{otlp_endpoint}/v1/traces",
\*     headers=headers): returns or raises
Http_L66 ==
    /\ pc = "H66"
    /\ \/ /\ heap' = Alloc(heap, "exporters",
                       OTLPExporter("trace", "http",
                                    Http_traces_endpoint(frame.otlp_endpoint),
                                    frame.headers))
          /\ frame' = [frame EXCEPT !.exporter = NewRef("exporters")]
          /\ pc' = "H69"
          /\ UNCHANGED outcome
       \/ /\ Raise("setup_tracing")
          /\ UNCHANGED <<heap, frame>>
    /\ UNCHANGED <<environ, globals, root, instrumented, runs, calls, at_call>>

\* otlp_processor = BatchSpanProcessor(otlp_exporter)
Http_L69 ==
    /\ pc = "H69"
    /\ heap' = Alloc(heap, "processors", Processor("trace", frame.exporter))
    /\ frame' = [frame EXCEPT !.processor = NewRef("processors")]
    /\ pc' = "H70"
    /\ UNCHANGED <<environ, globals, root, instrumented, runs, outcome, calls,
                   at_call>>

\* trace_provider.add_span_processor(otlp_processor)
Http_L70 ==
    /\ pc = "H70"
    /\ heap' = AddProcessor(heap, frame.provider, frame.processor)
    /\ pc' = "H71"
    /\ UNCHANGED <<environ, globals, root, instrumented, frame, runs, outcome,
                   calls, at_call>>

\* trace.set_tracer_provider(trace_provider)
Http_L71 ==
    /\ pc = "H71"
    /\ globals' = set_tracer_provider(globals, frame.provider)
    /\ Called("set_tracer_provider")
    /\ pc' = "H72"
    /\ UNCHANGED <<environ, heap, root, instrumented, frame, runs, outcome,
                   at_call>>

\* return trace.get_tracer(__name__)
Http_L72 ==
    /\ pc = "H72"
    /\ frame' = [frame EXCEPT !.tracer = get_tracer(globals)]
    /\ pc' = "H89"
    /\ UNCHANGED <<environ, globals, heap, root, instrumented, runs, outcome,
                   calls, at_call>>

\* setup_metrics: headers = _create_otlp_headers("Metrics", bearer_token)
Http_L89 ==
    /\ pc = "H89"
    /\ heap' = Alloc(heap, "dicts",
                     _create_otlp_headers("Metrics", frame.bearer_token))
    /\ frame' = [frame EXCEPT !.headers = NewRef("dicts")]
    /\ Called("setup_metrics")
    /\ pc' = "H91"
    /\ UNCHANGED <<environ, globals, root, instrumented, runs, outcome, at_call>>

\* metric_reader = PeriodicExportingMetricReader(OTLPMetricExporter(
\*     endpoint=f"{otlp_endpoint}/v1/metrics", headers=headers)):
\* the exporter constructor returns or raises
Http_L91 ==
    /\ pc = "H91"
    /\ \/ /\ heap' = Alloc(
                       Alloc(heap, "exporters",
                             OTLPExporter("metric", "http",
                                 Http_metrics_endpoint(frame.otlp_endpoint),
                                 frame.headers)),
                       "processors", Processor("metric", NewRef("exporters")))
          /\ frame' = [frame EXCEPT !.exporter = NewRef("exporters"),
                                    !.processor = NewRef("processors")]
          /\ pc' = "H96"
          /\ UNCHANGED outcome
       \/ /\ Raise("setup_metrics")
          /\ UNCHANGED <<heap, frame>>
    /\ UNCHANGED <<environ, globals, root, instrumented, runs, calls, at_call>>

\* metrics.set_meter_provider(MeterProvider(resource=resource,
\*     metric_readers=[metric_reader]))
Http_L96 ==
    /\ pc = "H96"
    /\ heap' = Alloc(heap, "providers",
                     MeterProvider(frame.resource, <<frame.processor>>))
    /\ frame' = [frame EXCEPT !.provider = NewRef("providers")]
    /\ globals' = set_meter_provider(globals, NewRef("providers"))
    /\ Called("set_meter_provider")
    /\ pc' = "H99"
    /\ UNCHANGED <<environ, root, instrumented, runs, outcome, at_call>>

\* return metrics.get_meter(__name__)
Http_L99 ==
    /\ pc = "H99"
    /\ frame' = [frame EXCEPT !.meter = get_meter(globals)]
    /\ pc' = "H116"
    /\ UNCHANGED <<environ, globals, heap, root, instrumented, runs, outcome,
                   calls, at_call>>

\* setup_logging: headers = _create_otlp_headers("Logs", bearer_token)
Http_L116 ==
    /\ pc = "H116"
    /\ heap' = Alloc(heap, "dicts",
                     _create_otlp_headers("Logs", frame.bearer_token))
    /\ frame' = [frame EXCEPT !.headers = NewRef("dicts"),
                              !.exporter = NoRef, !.processor = NoRef]
    /\ Called("setup_logging")
    /\ pc' = "H118"
    /\ UNCHANGED <<environ, globals, root, instrumented, runs, outcome, at_call>>

\* logger_provider = LoggerProvider(resource=resource)
Http_L118 ==
    /\ pc = "H118"
    /\ heap' = Alloc(heap, "providers", LoggerProvider(frame.resource))
    /\ frame' = [frame EXCEPT !.provider = NewRef("providers")]
    /\ pc' = "H119"
    /\ UNCHANGED <<environ, globals, root, instrumented, runs, outcome, calls,
                   at_call>>

\* set_logger_provider(logger_provider)
Http_L119 ==
    /\ pc = "H119"
    /\ globals' = set_logger_provider(globals, frame.provider)
    /\ Called("set_logger_provider")
    /\ pc' = "H120"
    /\ UNCHANGED <<environ, heap, root, instrumented, frame, runs, outcome,
                   at_call>>

\* logger_provider.add_log_record_processor(BatchLogRecordProcessor(
\*     OTLPLogExporter(endpoint=f"{otlp_endpoint}/v1/logs", headers=headers))):
\* the exporter constructor returns or raises
Http_L120 ==
    /\ pc = "H120"
    /\ \/ /\ heap' = AddProcessor(
                       Alloc(
                         Alloc(heap, "exporters",
                               OTLPExporter("log", "http",
                                   Http_logs_endpoint(frame.otlp_endpoint),
                                   frame.headers)),
                         "processors", Processor("log", NewRef("exporters"))),
                       frame.provider, NewRef("processors"))
          /\ frame' = [frame EXCEPT !.exporter = NewRef("exporters"),
                                    !.processor = NewRef("processors")]
          /\ Called("add_log_record_processor")
          /\ pc' = "H128"
          /\ UNCHANGED outcome
       \/ /\ Raise("setup_logging")
          /\ UNCHANGED <<heap, frame, calls>>
    /\ UNCHANGED <<environ, globals, root, instrumented, runs, at_call>>

\* handler = LoggingHandler(level=logging.NOTSET, logger_provider=logger_provider)
Http_L128 ==
    /\ pc = "H128"
    /\ heap' = Alloc(heap, "handlers", LoggingHandler(NOTSET, frame.provider))
    /\ frame' = [frame EXCEPT !.handler = NewRef("handlers")]
    /\ pc' = "H132"
    /\ UNCHANGED <<environ, globals, root, instrumented, runs, outcome, calls,
                   at_call>>

\* logging.getLogger().addHandler(handler)
Http_L132 ==
    /\ pc = "H132"
    /\ root' = addHandler(root, frame.handler)
    /\ Called("addHandler")
    /\ pc' = "H133"
    /\ UNCHANGED <<environ, globals, heap, instrumented, frame, runs, outcome,
                   at_call>>

\* logging.getLogger().setLevel(logging.INFO)
Http_L133 ==
    /\ pc = "H133"
    /\ root' = setLevel(root, INFO)
    /\ Called("setLevel")
    /\ pc' = "H135"
    /\ UNCHANGED <<environ, globals, heap, instrumented, frame, runs, outcome,
                   at_call>>

\* LoggingInstrumentor().instrument(set_logging_format=True)
Http_L135 ==
    /\ pc = "H135"
    /\ LoggingInstrumentor_instrument
    /\ Called("LoggingInstrumentor.instrument")
    /\ pc' = "H137"
    /\ UNCHANGED <<environ, globals, frame, runs, outcome, at_call>>

\* return logging.getLogger(__name__)
Http_L137 ==
    /\ pc = "H137"
    /\ frame' = [frame EXCEPT !.logger = getLogger]
    /\ pc' = "H166"
    /\ UNCHANGED <<environ, globals, heap, root, instrumented, runs, outcome,
                   calls, at_call>>

\* return logger, tracer, meter
Http_L166 ==
    /\ pc = "H166"
    /\ outcome' = [kind |-> "returned", in |-> "setup_instrumentation",
                   value |-> Http_return_value(frame)]
    /\ pc' = "idle"
    /\ UNCHANGED <<environ, globals, heap, root, instrumented, frame, runs,
                   calls, at_call>>

HttpNext ==
    \/ \E s \in ServiceNames : Http_setup_instrumentation(s)
    \/ Http_L153 \/ Http_L154 \/ Http_L156 \/ Http_L157 \/ Http_L160
    \/ Http_L63 \/ Http_L65 \/ Http_L66 \/ Http_L69 \/ Http_L70 \/ Http_L71
    \/ Http_L72 \/ Http_L89 \/ Http_L91 \/ Http_L96 \/ Http_L99
    \/ Http_L116 \/ Http_L118 \/ Http_L119 \/ Http_L120 \/ Http_L128
    \/ Http_L132 \/ Http_L133 \/ Http_L135 \/ Http_L137 \/ Http_L166

Next == FlaskNext \/ HttpNext

Spec == Init /\ [][Next]_vars

\* ------------------------------------------------------------------------
\* _create_otlp_headers called on its own, with any label and any token.

HeaderLabels == Labels \cup {""}
HeaderTokens == {None} \cup { Some(t) : t \in TokenValues \cup {"t0k"} }

create_otlp_headers_call(target_package, bearer_token) ==
    /\ pc = "idle"
    /\ Len(heap.dicts) < MaxHeaderCalls
    /\ heap' = Alloc(heap, "dicts",
                     _create_otlp_headers(target_package, bearer_token))
    /\ outcome' = [kind |-> "returned", in |-> "_create_otlp_headers",
                   value |-> <<target_package, bearer_token, NewRef("dicts")>>]
    /\ UNCHANGED <<environ, globals, root, instrumented, pc, frame, runs, calls,
                   at_call>>

HeadersNext ==
    \E l \in HeaderLabels, t \in HeaderTokens : create_otlp_headers_call(l, t)

HeadersSpec == Init /\ [][HeadersNext]_vars

\* ------------------------------------------------------------------------
\* Vocabulary of the properties

Kinds == {"trace", "metric", "log"}

Returned ==
    /\ pc = "idle"
    /\ outcome.kind = "returned"
    /\ outcome.in = "setup_instrumentation"

Raised(fn) == pc = "idle" /\ outcome.kind = "raised" /\ outcome.in = fn

\* The attribute mapping of the resource a provider references.
AttributesOf(provider) ==
    heap.resources[heap.providers[provider].resource].attributes

SlotsEmptyAtCall == \A k \in Kinds : at_call.globals[k] = NoRef

ProvidersOf(k) ==
    { i \in 1..Len(heap.providers) : heap.providers[i].signal = k }
ProcessorsOf(k) ==
    { i \in 1..Len(heap.processors) : heap.processors[i].signal = k }
ExportersOf(k) ==
    { i \in 1..Len(heap.exporters) : heap.exporters[i].signal = k }

\* Every setup_instrumentation call started so far has returned: each call
\* builds one log processor, in its last function.
AllCompleted == pc = "idle" /\ Cardinality(ProcessorsOf("log")) = runs

\* The endpoint a variant resolves from the environment.
ResolvedEndpoint(variant) ==
    IF ENDPOINT_VAR \in DOMAIN environ
    THEN environ[ENDPOINT_VAR]
    ELSE IF variant = "flask" THEN "http://localhost:4317"
                              ELSE "http://localhost:4318"

PathOf(k) ==
    CASE k = "trace" -> "/v1/traces"
      [] k = "metric" -> "/v1/metrics"
      [] k = "log" -> "/v1/logs"

LabelOf(k) ==
    CASE k = "trace" -> "Tracing"
      [] k = "metric" -> "Metrics"
      [] k = "log" -> "Logs"

HeadersReturned == outcome.in = "_create_otlp_headers"
HeadersArgL == outcome.value[1]
HeadersArgT == outcome.value[2]
HeadersResult == heap.dicts[outcome.value[3]]

\* C3 (as stated): _create_otlp_headers(L, T) always contains
\* x-observe-target-package = L; with no token that is the only entry; with
\* any token T, the empty string included, it also contains
\* Authorization = "Bearer T" and nothing else.
C3_AsStated ==
    HeadersReturned =>
        /\ HeadersResult["x-observe-target-package"] = HeadersArgL
        /\ HeadersArgT = None =>
              DOMAIN HeadersResult = {"x-observe-target-package"}
        /\ HeadersArgT /= None =>
              /\ DOMAIN HeadersResult =
                    {"x-observe-target-package", "Authorization"}
              /\ HeadersResult["Authorization"] = "Bearer " \o HeadersArgT[1]

\* C3 (amended): _create_otlp_headers(L, T) always contains
\* x-observe-target-package = L; when no token or the empty string is
\* supplied that is the only entry; when a non-empty token T is supplied it
\* also contains Authorization = "Bearer T" and nothing else.
C3_HeadersForNonEmptyToken ==
    HeadersReturned =>
        /\ HeadersResult["x-observe-target-package"] = HeadersArgL
        /\ (HeadersArgT = None \/ HeadersArgT = Some("")) =>
              DOMAIN HeadersResult = {"x-observe-target-package"}
        /\ (HeadersArgT /= None /\ HeadersArgT /= Some("")) =>
              /\ DOMAIN HeadersResult =
                    {"x-observe-target-package", "Authorization"}
              /\ HeadersResult["Authorization"] = "Bearer " \o HeadersArgT[1]

C3_Witness ==
    /\ HeadersReturned
    /\ HeadersArgT = Some("")
    /\ HeadersArgL = "Metrics"
    /\ DOMAIN HeadersResult = {"x-observe-target-package"}
    /\ Len(heap.dicts) = 2
    /\ "Authorization" \in DOMAIN heap.dicts[1]

\* C4: the endpoint is a function of the environment only: with
\* OTEL_EXPORTER_OTLP_ENDPOINT unset every gRPC exporter (trace, metric, log)
\* is given http://localhost:4317 and every HTTP exporter is based on
\* http://localhost:4318; with the variable set to E, E is used unchanged by
\* every exporter of both variants; and only the HTTP variant reads the
\* bearer token.
C4_EndpointResolution ==
    /\ \A i \in 1..Len(heap.exporters) :
          LET e == heap.exporters[i] IN
            /\ e.protocol = "grpc" =>
                  /\ e.endpoint = ResolvedEndpoint("flask")
                  /\ e.headers = NoRef
            /\ e.protocol = "http" =>
                  e.endpoint = ResolvedEndpoint("http") \o PathOf(e.signal)
    /\ frame.variant = "flask" => frame.bearer_token = None
    /\ (frame.variant = "flask" /\ pc \notin {"F92", "F94", "F95"}) =>
          frame.otlp_endpoint = ResolvedEndpoint("flask")
    /\ (frame.variant = "http"
          /\ pc \notin {"H153", "H154", "H156", "H157", "H160"}) =>
          /\ frame.otlp_endpoint = ResolvedEndpoint("http")
          /\ frame.bearer_token =
                IF TOKEN_VAR \in DOMAIN environ
                THEN Some(environ[TOKEN_VAR]) ELSE None

C4_Witness ==
    /\ Returned
    /\ runs = 2
    /\ ENDPOINT_VAR \notin DOMAIN environ
    /\ TOKEN_VAR \in DOMAIN environ
    /\ \A k \in Kinds :
          /\ \E i \in ExportersOf(k) :
                heap.exporters[i].endpoint = "http://localhost:4317"
          /\ \E i \in ExportersOf(k) :
                heap.exporters[i].endpoint =
                    "http://localhost:4318" \o PathOf(k)

\* setup_logging of the running call has returned.
LoggingDone == pc \in {"F101", "H166"} \/ Returned

\* The process is inside setup_logging, past the LoggerProvider constructor,
\* so frame.provider is the log provider this call built.
InLogging ==
    pc \in {"F69", "F70", "F72", "F73", "F74", "F76", "F78",
            "H119", "H120", "H128", "H132", "H133", "H135", "H137"}

Range(seq) == { seq[i] : i \in 1..Len(seq) }

\* The providers the handlers on the root logger are bound to.
RootHandlerProviders ==
    { heap.handlers[h].logger_provider : h \in Range(root.handlers) }

\* Handlers of the root logger that bridge to a log provider.
TelemetryHandlers ==
    { i \in 1..Len(root.handlers) :
        heap.handlers[root.handlers[i]].logger_provider /= NoRef }

\* Something has been attached to log provider p: a processor, or a handler.
Attached(p) ==
    \/ heap.providers[p].processors /= <<>>
    \/ \E h \in 1..Len(heap.handlers) : heap.handlers[h].logger_provider = p

IsPrefix(a, b) == Len(a) <= Len(b) /\ \A i \in 1..Len(a) : a[i] = b[i]

SetupSteps ==
    <<"setup_tracing", "set_tracer_provider",
      "setup_metrics", "set_meter_provider",
      "setup_logging", "set_logger_provider", "add_log_record_processor",
      "addHandler", "setLevel", "LoggingInstrumentor.instrument">>

ExpectedCalls(variant) ==
    IF variant = "flask"
    THEN <<"FlaskInstrumentor.instrument_app">> \o SetupSteps
    ELSE <<"RequestsInstrumentor.instrument",
           "URLLib3Instrumentor.instrument">> \o SetupSteps

InstrumentationActive ==
    "flask" \in instrumented \/ {"requests", "urllib3"} \subseteq instrumented

\* C6: in every run of either orchestrator the steps happen in one fixed
\* order: automatic instrumentation first (the Flask app; requests, then
\* urllib3), then the trace provider is handed to set_tracer_provider, then
\* the metric provider to set_meter_provider, then the log provider to
\* set_logger_provider; no slot holds a provider before instrumentation is
\* active, a later slot is never filled before an earlier one, and the call
\* returns exactly three handles in the order (logger, tracer, meter).
C6_FixedStepOrder ==
    /\ frame.variant /= "none" => IsPrefix(calls, ExpectedCalls(frame.variant))
    /\ (\E k \in Kinds : globals[k] /= NoRef) => InstrumentationActive
    /\ globals.metric /= NoRef => globals.trace /= NoRef
    /\ globals.log /= NoRef => globals.metric /= NoRef
    /\ Returned =>
          /\ calls = ExpectedCalls(frame.variant)
          /\ Len(outcome.value) = 3
          /\ outcome.value[1].kind = "logger"
          /\ outcome.value[2].kind = "tracer"
          /\ outcome.value[3].kind = "meter"
          /\ outcome.value[2].of = globals.trace
          /\ outcome.value[3].of = globals.metric

C6_Witness ==
    /\ Returned
    /\ frame.variant = "http"
    /\ runs = 2
    /\ "flask" \in instrumented
    /\ Len(calls) = 12

\* C7: in the HTTP variant, for every base endpoint E and every token, the
\* trace exporter gets E/v1/traces with label Tracing, the metric exporter
\* E/v1/metrics with Metrics, the log exporter E/v1/logs with Logs; every
\* exporter has a header dict of its own; and all of them carry the same
\* Authorization entry or all of them none.
C7_LabelsAndPathsMatchSignal ==
    LET http == { i \in 1..Len(heap.exporters) :
                    heap.exporters[i].protocol = "http" }
        auth(i) ==
            LET d == heap.dicts[heap.exporters[i].headers]
            IN  IF "Authorization" \in DOMAIN d
                THEN Some(d["Authorization"]) ELSE None
    IN  /\ \A i \in http :
              LET e == heap.exporters[i] IN
                /\ e.headers /= NoRef
                /\ heap.dicts[e.headers]["x-observe-target-package"] =
                      LabelOf(e.signal)
                /\ e.endpoint = ResolvedEndpoint("http") \o PathOf(e.signal)
                /\ DOMAIN heap.dicts[e.headers] \subseteq
                      {"x-observe-target-package", "Authorization"}
        /\ \A i, j \in http :
              /\ auth(i) = auth(j)
              /\ i /= j => heap.exporters[i].headers /= heap.exporters[j].headers
        /\ \A i \in http :
              (TOKEN_VAR \in DOMAIN environ /\ environ[TOKEN_VAR] /= "") =>
                  auth(i) = Some("Bearer " \o environ[TOKEN_VAR])

C7_Witness ==
    /\ Returned
    /\ frame.variant = "http"
    /\ TOKEN_VAR \in DOMAIN environ
    /\ environ[TOKEN_VAR] /= ""
    /\ ENDPOINT_VAR \in DOMAIN environ
    /\ \A k \in Kinds : \E i \in ExportersOf(k) :
          /\ heap.exporters[i].protocol = "http"
          /\ heap.dicts[heap.exporters[i].headers]["x-observe-target-package"]
                = LabelOf(k)

Min(S) == CHOOSE x \in S : \A y \in S : x <= y
Max(S) == CHOOSE x \in S : \A y \in S : x >= y

\* Every processor and reader built so far is still running and still
\* attached to exactly one provider, and every exporter is still held by
\* exactly one processor.
NothingReleased ==
    /\ \A i \in 1..Len(heap.processors) :
          /\ ~heap.processors[i].shutdown
          /\ Cardinality({ p \in 1..Len(heap.providers) :
                            i \in Range(heap.providers[p].processors) }) = 1
    /\ \A e \in 1..Len(heap.exporters) :
          Cardinality({ i \in 1..Len(heap.processors) :
                          heap.processors[i].exporter = e }) = 1

OnePerKindPerRun ==
    \A k \in Kinds :
        /\ Cardinality(ProvidersOf(k)) = runs
        /\ Cardinality(ProcessorsOf(k)) = runs
        /\ Cardinality(ExportersOf(k)) = runs

NoLaterStep(fn) ==
    /\ fn = "setup_tracing" =>
          /\ "setup_metrics" \notin Range(calls)
          /\ globals.metric = at_call.globals.metric
          /\ frame.tracer = NoHandle
    /\ fn \in {"setup_tracing", "setup_metrics"} =>
          /\ "setup_logging" \notin Range(calls)
          /\ globals.log = at_call.globals.log
          /\ frame.meter = NoHandle
    /\ frame.logger = NoHandle
    /\ "addHandler" \notin Range(calls)
    /\ root = at_call.root

\* The provider in slot k is the one that was there when the call started,
\* or else one this call built.
StaysInstalled(k) ==
    /\ globals[k] /= NoRef
    /\ heap.providers[globals[k]].signal = k
    /\ IF at_call.globals[k] /= NoRef
       THEN globals[k] = at_call.globals[k]
       ELSE heap.providers[globals[k]].resource = frame.resource

Receivers(levelno) ==
    IF levelno >= root.level
    THEN { heap.handlers[h].logger_provider :
             h \in { g \in Range(root.handlers) :
                       levelno >= heap.handlers[g].level } } \ {NoRef}
    ELSE {}

\* Log providers whose setup_logging call ran to its end.
CompletedLogProviders ==
    { p \in ProvidersOf("log") : heap.providers[p].processors /= <<>> }

HandlersKept ==
    /\ IsPrefix(at_call.root.handlers, root.handlers)
    /\ \A i, j \in 1..Len(root.handlers) :
          i /= j => root.handlers[i] /= root.handlers[j]

====
